---- MODULE Spec2Model ----
(***************************************************************************)
(* State-machine model of the CatSalom game core: the React component      *)
(* GameCanvas (progression, spawning, movement, collision, abilities, the  *)
(* boss phase), the App component that owns gameState and score, and the   *)
(* SkillButton component that gates ability clicks.                        *)
(*                                                                         *)
(* Conventions                                                             *)
(*  - Times are milliseconds on one clock `now` (Date.now and the frame    *)
(*    timestamp advance together).                                         *)
(*  - An enemy's position is kept as its distance from the centre, in      *)
(*    tenths of a pixel; speeds are tenths of a pixel per frame; the time  *)
(*    scale is kept in tenths (10 = 1.0, 1 = 0.1).                         *)
(*  - Every handler runs to completion before the next one starts (one     *)
(*    logical thread); React state updates are visible to the next handler.*)
(***************************************************************************)
EXTENDS Integers, Sequences, FiniteSets, TLC

\* ------------------------------------------------------------------ bounds
MaxNow == 10000
MaxRegular == 2
MaxPoints == 2
MaxOverkill == 1
MaxParticleBursts == 1
MaxLevelUps == 1

\* ------------------------------------------------------- program constants
maxHealth == 5
PROXIMITY == 45
SIGIL_RADIUS == 130
MIN_POINTS == 10
SHIELD_DURATION == 4000
SLOW_DURATION == 4000
SHIELD_COOLDOWN == 15000
HOURGLASS_COOLDOWN == 20000
BOMB_COOLDOWN == 25000
SHIELD_UNLOCK == 5
HOURGLASS_UNLOCK == 10
BOMB_UNLOCK == 15
BOSS_BONUS == 1000
BOSS_LEVEL == 11
NUM_BIOMES == 7
FULL_SCALE == 10
SLOW_SCALE == 1

LEVEL_SCORES == <<30, 70, 120, 180, 250, 330, 420, 520, 630, 750>>

Skills == {"shield", "hourglass", "bomb"}

SpellTypes == {"HORIZONTAL", "VERTICAL", "C_SHAPE", "SEVEN_SHAPE",
               "EIGHT_SHAPE", "S_SHAPE", "X_SHAPE", "LIGHTNING"}

NoMatch == "null"

bossSpells == <<"C_SHAPE", "SEVEN_SHAPE", "EIGHT_SHAPE", "S_SHAPE",
                "X_SHAPE", "LIGHTNING">>

\* ------------------------------------------------------------ input sets
\* Time that passes between two events.
Deltas == {5000}
\* Distance (tenths of a pixel) of the random perimeter point from the centre.
SpawnDists == {600}
\* Candidate speeds (tenths of a pixel per frame).
SpeedChoices == {10, 20, 30}
\* Abilities the explored clicks activate.
SkillChoices == {"shield", "bomb"}
\* Results of recognizeGesture the explored strokes have.
GestureChoices == {"HORIZONTAL", "C_SHAPE", "null"}
\* Symbols the explored spawns draw from.
SymbolChoices == {"HORIZONTAL", "C_SHAPE"}
\* Values the random id of a spawn takes when draws may repeat.
IdChoices == {1, 2}

VARIABLES gameState, score, health, currentBiomeIndex, currentLevel,
          totalLevelsCleared, isPaused, enemies, particles, isDrawing,
          drawingPoints, lastSpawnTime, skills, cooldowns, progress, boss,
          now, levelUps, last, pausedTickAt, stroke, gesture, shownTarget

vars == <<gameState, score, health, currentBiomeIndex, currentLevel,
          totalLevelsCleared, isPaused, enemies, particles, isDrawing,
          drawingPoints, lastSpawnTime, skills, cooldowns, progress, boss,
          now, levelUps, last, pausedTickAt, stroke, gesture,
          shownTarget>>

\* ------------------------------------------------------------- helpers
IsSigil(e) == e.isBossSigil
IsRegular(e) == ~e.isBossSigil

Sigils(es) == SelectSeq(es, IsSigil)
Regulars(es) == SelectSeq(es, IsRegular)

Ids(es) == {es[i].id : i \in 1..Len(es)}

\* ------------------------------------------------------ gameConfig.ts
\* Products base * multiplier whose double-precision value lies just below
\* the exact integer (180 * 1.4 and 330 * 1.4), so Math.floor yields one less.
FloorShort == {<<180, 14>>, <<330, 14>>}

\* Variant: without the boss-level test, so that level 11 takes the fallback
\* base of 1000.
getTargetScoreNoBossTest(level, multTenths) ==
    LET base == IF level > 10 THEN 1000 ELSE LEVEL_SCORES[level]
    IN (base * multTenths) \div 10

\* The multiplier is passed in tenths.
getTargetScore(level, multTenths) ==
    IF level > 10 THEN 0
    ELSE LET base == LEVEL_SCORES[level]
         IN (base * multTenths) \div 10
              - (IF <<base, multTenths>> \in FloorShort THEN 1 ELSE 0)

\* Variant: no level is treated as the boss level.
isBossLevelNever == FALSE

isBossLevel == currentLevel = BOSS_LEVEL

targetScoreOf(biome, level) == getTargetScore(level, 10 + biome * 2)

targetScore == targetScoreOf(currentBiomeIndex, currentLevel)

\* Variant: a kill on the boss level is credited like any other.
killValueOnEveryLevel(biome, level) == 10 + 5 * biome

\* Credit for one destroyed regular enemy: 10 * (1 + biome * 0.5).
killValueOf(biome, level) == IF level = BOSS_LEVEL THEN 0 ELSE 10 + 5 * biome

\* ---------------------------------------------------- spawnEnemy inputs
\* Symbols spawnEnemy can draw at (biome, level).
spellTypesOf(biome, level) ==
    {"HORIZONTAL", "VERTICAL"}
    \cup (IF level > 1 \/ biome > 0 THEN {"C_SHAPE"} ELSE {})
    \cup (IF level > 2 \/ biome > 0 THEN {"SEVEN_SHAPE"} ELSE {})
    \cup (IF level > 4 \/ biome > 0 THEN {"EIGHT_SHAPE"} ELSE {})
    \cup (IF level > 6 \/ biome > 0 THEN {"S_SHAPE"} ELSE {})
    \cup (IF level > 8 \/ biome > 1 THEN {"X_SHAPE"} ELSE {})
    \cup (IF level > 8 /\ biome > 0 THEN {"LIGHTNING"} ELSE {})

\* speed = (speedBase + random * difficultyMultiplier) * 0.7 with random in
\* [0,1), difficultyMultiplier = 1 + biome*0.25 + level*0.1 and speedBase 2.5
\* on the boss level, 0.8 otherwise; compared in thousandths of a pixel.
speedsOf(biome, level) ==
    LET base == IF level = BOSS_LEVEL THEN 1750 ELSE 560
        span == 700 + 175 * biome + 70 * level
    IN {s \in SpeedChoices : base <= 100 * s /\ 100 * s < base + span}

\* Math.random().toString(36).substr(2, 9): an id is a random string.  Two
\* draws that differ are told apart by numbering them; FreshId is the draw
\* that differs from every id in the list.
FreshId(es) == CHOOSE i \in 1..(Len(es) + 1) : i \notin Ids(es)

\* Ids a spawn can draw: any value of IdChoices when draws may repeat,
\* otherwise a value not in the list.
idDraws(es, repeats) == IF repeats THEN IdChoices ELSE {FreshId(es)}

newEnemy(id, dist, speed, symbol) ==
    [id |-> id, dist |-> dist, speed |-> speed, symbol |-> symbol,
     isBossSigil |-> FALSE]

\* spawnEnemy returns early only when time-slow is active and the time
\* scale is strictly below 0.1.
spawnSuppressed(sk) == sk.timeSlowActive /\ sk.timeScale < SLOW_SCALE

spawnEnemy(es, sk, id, dist, speed, symbol) ==
    IF spawnSuppressed(sk) THEN es
    ELSE Append(es, newEnemy(id, dist, speed, symbol))

\* ------------------------------------------------------ spawnBossSigils
\* Variant: every ring has four sigils.
sigilCountFour(biome) == 4

sigilCountOf(biome) == 4 + biome

sigilRing(biome) ==
    [i \in 1..sigilCountOf(biome) |->
        [id |-> 100 + (i - 1), dist |-> SIGIL_RADIUS * 10, speed |-> 0,
         symbol |-> bossSpells[((i - 1) % Len(bossSpells)) + 1],
         isBossSigil |-> TRUE]]

\* Variant: the ring is spawned without setting the active flag.
spawnBossSigilsInactive(biome) ==
    [es |-> sigilRing(biome),
     boss |-> [active |-> FALSE, maxSigils |-> sigilCountOf(biome),
               currentSigils |-> sigilCountOf(biome)]]

spawnBossSigils(biome) ==
    [es |-> sigilRing(biome),
     boss |-> [active |-> TRUE, maxSigils |-> sigilCountOf(biome),
               currentSigils |-> sigilCountOf(biome)]]

\* ------------------------------------------------------ createParticles
\* `particles` counts the bursts (createParticles calls) still alive, up to
\* MaxParticleBursts.
createParticles(p, n) ==
    IF p + n <= MaxParticleBursts THEN p + n ELSE MaxParticleBursts

\* --------------------------------------------------- handleLevelComplete
\* Variant: the biome index advances past the last biome without wrapping.
nextBiomeNoWrap(biome, level) ==
    IF level = BOSS_LEVEL THEN biome + 1 ELSE biome

nextBiome(biome, level) ==
    IF level = BOSS_LEVEL
    THEN (IF biome < NUM_BIOMES - 1 THEN biome + 1 ELSE 0)
    ELSE biome

\* Variant: the level number keeps counting after the boss level.
nextLevelPastBoss(biome, level) == level + 1

nextLevel(biome, level) == IF level = BOSS_LEVEL THEN 1 ELSE level + 1

handleLevelComplete ==
    /\ currentBiomeIndex' = nextBiome(currentBiomeIndex, currentLevel)
    /\ currentLevel' = nextLevel(currentBiomeIndex, currentLevel)
    /\ totalLevelsCleared' = totalLevelsCleared + 1
    /\ gameState' = "LEVEL_COMPLETE"

\* ------------------------------------------------------------ SkillButton
unlockAt(s) == CASE s = "shield" -> SHIELD_UNLOCK
                 [] s = "hourglass" -> HOURGLASS_UNLOCK
                 [] s = "bomb" -> BOMB_UNLOCK

isUnlocked(s) == totalLevelsCleared >= unlockAt(s)

\* progress > 0 as the 50 ms interval computes it at time t.
progressAt(cd, t) == [s \in Skills |-> t < cd[s]]

NoProgress == [s \in Skills |-> FALSE]

\* ------------------------------------------------------------------ Init
\* Progression points of the snapshots a run starts from, besides the first
\* start (the counter is 11 * biome + level - 1 at such a point).
StartPoints == {<<0, 6>>, <<6, 11>>}

\* Health of the snapshot at a progression point.
startHealthOf(biome, level) == IF level = BOSS_LEVEL THEN 1 ELSE maxHealth

\* Sigils (by ring position) still alive in a boss-level snapshot.
StartSigils == {1, 7}

clearedAt(biome, level) == 11 * biome + level - 1

\* Largest score below the target that kills of this level can add up to.
startScoreOf(biome, level) ==
    IF level = BOSS_LEVEL THEN 0
    ELSE LET k == killValueOf(biome, level)
             t == targetScoreOf(biome, level)
         IN ((t - 1) \div k) * k

InitSkills == [shieldActive |-> FALSE, shieldEndTime |-> 0,
               timeSlowActive |-> FALSE, timeSlowEndTime |-> 0,
               timeScale |-> FULL_SCALE]

InitCooldowns == [s \in Skills |-> 0]

\* The target score has not been computed by a render.
NoTarget == -1

\* No stroke is being classified: the game specifications keep only the
\* number of recorded points (drawingPoints) and draw the result.
NoStroke == [pts |-> <<>>, unit |-> 1]

InitBoss == [active |-> FALSE, maxSigils |-> 0, currentSigils |-> 0]

sigilsLeftOf(biome) ==
    LET Left(e) == (e.id - 100) + 1 \in StartSigils
    IN SelectSeq(sigilRing(biome), Left)

\* Either the program's initial state (the menu), or a snapshot of a level
\* in progress with no regular enemy on screen and no ability used yet: a
\* normal level one kill short of its target, or a boss level whose ring is
\* down to the sigils of StartSigils.
Init ==
    /\ \/ /\ gameState = "MENU"
          /\ currentBiomeIndex = 0
          /\ currentLevel = 1
          /\ totalLevelsCleared = 0
          /\ score = 0
          /\ health = maxHealth
          /\ enemies = <<>>
          /\ boss = InitBoss
       \/ \E sp \in StartPoints :
             /\ gameState = "PLAYING"
             /\ currentBiomeIndex = sp[1]
             /\ currentLevel = sp[2]
             /\ totalLevelsCleared = clearedAt(sp[1], sp[2])
             /\ score = startScoreOf(sp[1], sp[2])
             /\ health = startHealthOf(sp[1], sp[2])
             /\ IF sp[2] = BOSS_LEVEL
                THEN /\ enemies = sigilsLeftOf(sp[1])
                     /\ boss = [active |-> TRUE,
                                maxSigils |-> sigilCountOf(sp[1]),
                                currentSigils |-> Len(sigilsLeftOf(sp[1]))]
                ELSE /\ enemies = <<>>
                     /\ boss = InitBoss
    /\ isPaused = FALSE
    /\ particles = 0
    /\ isDrawing = FALSE
    /\ drawingPoints = 0
    /\ lastSpawnTime = 0
    /\ skills = InitSkills
    /\ cooldowns = InitCooldowns
    /\ progress = NoProgress
    /\ now = 0
    /\ last = <<"init", 0>>
    /\ pausedTickAt = -1
    /\ levelUps = 0
    /\ stroke = NoStroke
    /\ gesture = NoMatch
    /\ shownTarget = NoTarget

\* ------------------------------------------------- entering PLAYING
\* The initialization effect, run when gameState becomes PLAYING; the HUD
\* (and with it every SkillButton) is mounted anew.
\* Variant: the effect of the earlier revision, which leaves the score.
enterPlayingKeepsScore ==
    /\ gameState' = "PLAYING"
    /\ enemies' = <<>>
    /\ particles' = 0
    /\ boss' = [boss EXCEPT !.active = FALSE]
    /\ isPaused' = FALSE
    /\ health' = maxHealth
    /\ score' = score
    /\ lastSpawnTime' = now
    /\ progress' = NoProgress
    /\ pausedTickAt' = -1

enterPlaying ==
    /\ gameState' = "PLAYING"
    /\ enemies' = <<>>
    /\ particles' = 0
    /\ boss' = [boss EXCEPT !.active = FALSE]
    /\ isPaused' = FALSE
    /\ health' = maxHealth
    /\ score' = 0
    /\ lastSpawnTime' = now
    /\ progress' = NoProgress
    /\ pausedTickAt' = -1

startGame ==
    /\ last' = <<"startGame", 0>>
    /\ gameState = "MENU"
    /\ enterPlaying
    /\ UNCHANGED <<currentBiomeIndex, currentLevel, totalLevelsCleared,
                   isDrawing, drawingPoints, skills, cooldowns, now, levelUps>>
    /\ UNCHANGED <<stroke, gesture, shownTarget>>

\* Variant: a restart begins the game anew at the first level.
restartGameFromScratch ==
    /\ last' = <<"restartGame", 0>>
    /\ gameState = "GAME_OVER"
    /\ enterPlaying
    /\ currentBiomeIndex' = 0
    /\ currentLevel' = 1
    /\ totalLevelsCleared' = 0
    /\ UNCHANGED <<isDrawing, drawingPoints, skills, cooldowns, now, levelUps>>
    /\ UNCHANGED <<stroke, gesture, shownTarget>>

restartGame ==
    /\ last' = <<"restartGame", 0>>
    /\ gameState = "GAME_OVER"
    /\ enterPlaying
    /\ UNCHANGED <<currentBiomeIndex, currentLevel, totalLevelsCleared,
                   isDrawing, drawingPoints, skills, cooldowns, now, levelUps>>
    /\ UNCHANGED <<stroke, gesture, shownTarget>>

\* Variant: the initialization effect of the earlier GameCanvas, which left
\* the score as it was.
nextLevelClickKeepsScore ==
    /\ last' = <<"nextLevelClick", 0>>
    /\ gameState = "LEVEL_COMPLETE"
    /\ levelUps < MaxLevelUps
    /\ enterPlayingKeepsScore
    /\ levelUps' = levelUps + 1
    /\ UNCHANGED <<currentBiomeIndex, currentLevel, totalLevelsCleared,
                   isDrawing, drawingPoints, skills, cooldowns, now>>
    /\ UNCHANGED <<stroke, gesture, shownTarget>>

nextLevelClick ==
    /\ last' = <<"nextLevelClick", 0>>
    /\ gameState = "LEVEL_COMPLETE"
    /\ levelUps < MaxLevelUps
    /\ enterPlaying
    /\ levelUps' = levelUps + 1
    /\ UNCHANGED <<currentBiomeIndex, currentLevel, totalLevelsCleared,
                   isDrawing, drawingPoints, skills, cooldowns, now>>
    /\ UNCHANGED <<stroke, gesture, shownTarget>>

togglePause ==
    /\ last' = <<"other", 0>>
    /\ gameState = "PLAYING"
    /\ isPaused' = ~isPaused
    /\ UNCHANGED <<gameState, score, health, currentBiomeIndex, currentLevel,
                   totalLevelsCleared, enemies, particles, isDrawing,
                   drawingPoints, lastSpawnTime, skills, cooldowns, progress,
                   boss, now, levelUps,
                   pausedTickAt>>
    /\ UNCHANGED <<stroke, gesture, shownTarget>>

\* Time passes; every mounted SkillButton's interval has fired by then.
Elapse(d) ==
    /\ last' = <<"other", 0>>
    /\ now + d <= MaxNow
    /\ now' = now + d
    /\ progress' = IF gameState = "PLAYING" THEN progressAt(cooldowns, now + d)
                   ELSE progress
    /\ UNCHANGED <<gameState, score, health, currentBiomeIndex, currentLevel,
                   totalLevelsCleared, isPaused, enemies, particles, isDrawing,
                   drawingPoints, lastSpawnTime, skills, cooldowns, boss,
                   levelUps,
                   pausedTickAt>>
    /\ UNCHANGED <<stroke, gesture, shownTarget>>

\* ---------------------------------------------------------- activateSkill
\* Variant: the bomb clears the whole list, sigils included.
bombClearsAll(es) == <<>>

\* enemiesRef.current.filter(e => e.isBossSigil): what the bomb leaves.
bombSurvivors(es) == Sigils(es)

activateSkill(s) ==
    /\ CASE s = "shield" ->
            /\ skills' = [skills EXCEPT !.shieldActive = TRUE,
                                         !.shieldEndTime = now + SHIELD_DURATION]
            /\ cooldowns' = [cooldowns EXCEPT !["shield"] = now + SHIELD_COOLDOWN]
            /\ UNCHANGED <<enemies, particles>>
         [] s = "hourglass" ->
            /\ skills' = [skills EXCEPT !.timeSlowActive = TRUE,
                                         !.timeScale = SLOW_SCALE,
                                         !.timeSlowEndTime = now + SLOW_DURATION]
            /\ cooldowns' = [cooldowns EXCEPT !["hourglass"] = now + HOURGLASS_COOLDOWN]
            /\ UNCHANGED <<enemies, particles>>
         [] s = "bomb" ->
            /\ particles' = createParticles(particles, 1)
            /\ enemies' = bombSurvivors(enemies)
            /\ cooldowns' = [cooldowns EXCEPT !["bomb"] = now + BOMB_COOLDOWN]
            /\ UNCHANGED skills

\* A click on a SkillButton: the button exists while the HUD is shown, is a
\* lock icon until unlocked, and is disabled while its progress state is > 0.
skillClick(s) ==
    /\ last' = <<s, IF s = "bomb" THEN Len(Regulars(enemies)) ELSE 0>>
    /\ gameState = "PLAYING"
    /\ isUnlocked(s)
    /\ ~progress[s]
    /\ activateSkill(s)
    /\ UNCHANGED <<gameState, score, health, currentBiomeIndex, currentLevel,
                   totalLevelsCleared, isPaused, isDrawing, drawingPoints,
                   lastSpawnTime, progress, boss, now, levelUps,
                   pausedTickAt>>
    /\ UNCHANGED <<stroke, gesture, shownTarget>>

\* ---------------------------------------------------------- input handlers
handleInputStart ==
    /\ last' = <<"other", 0>>
    /\ gameState = "PLAYING" /\ ~isPaused
    /\ isDrawing' = TRUE
    /\ drawingPoints' = 1
    /\ UNCHANGED <<gameState, score, health, currentBiomeIndex, currentLevel,
                   totalLevelsCleared, isPaused, enemies, particles,
                   lastSpawnTime, skills, cooldowns, progress, boss, now,
                   levelUps,
                   pausedTickAt>>
    /\ UNCHANGED <<stroke, gesture, shownTarget>>

\* A sample farther than 5 px from the last one is appended.
handleInputMove ==
    /\ last' = <<"other", 0>>
    /\ isDrawing /\ gameState = "PLAYING" /\ ~isPaused
    /\ drawingPoints' = IF drawingPoints < MaxPoints THEN drawingPoints + 1
                                                     ELSE drawingPoints
    /\ UNCHANGED <<gameState, score, health, currentBiomeIndex, currentLevel,
                   totalLevelsCleared, isPaused, enemies, particles, isDrawing,
                   lastSpawnTime, skills, cooldowns, progress, boss, now,
                   levelUps,
                   pausedTickAt>>
    /\ UNCHANGED <<stroke, gesture, shownTarget>>

\* What recognizeGesture can return for a stroke whose recorded length is n:
\* null below the minimum point count, otherwise null or a symbol (by the
\* coordinates).  drawingPoints stops counting at MaxPoints, so n = MaxPoints
\* stands for every length from MaxPoints on.
gesturesOf(n) ==
    IF n < MIN_POINTS /\ n < MaxPoints THEN {NoMatch}
    ELSE SpellTypes \cup {NoMatch}

\* Variant: only the first enemy carrying the symbol is targeted.
matchingFirst(es, g) ==
    LET M(e) == e.symbol = g
        m == SelectSeq(es, M)
    IN IF Len(m) > 1 THEN SubSeq(m, 1, 1) ELSE m

matching(es, g) == LET M(e) == e.symbol = g IN SelectSeq(es, M)

removeTargets(es, targets) ==
    LET Keep(e) == e.id \notin Ids(targets) IN SelectSeq(es, Keep)

scoreToAddOf(targets, biome, level) ==
    Len(Regulars(targets)) * killValueOf(biome, level)

\* Variant: a release takes one sigil off the count however many it destroyed.
sigilsAfterOneLess(cur, destroyed) == cur - 1

\* bossStateRef.current.currentSigils -= bossSigilsDestroyed
sigilsAfter(cur, destroyed) == cur - destroyed

\* Variant: the boss falls only when the count goes below zero.
bossDefeatedBelowZero(destroyed, left) == destroyed > 0 /\ left < 0

\* bossSigilsDestroyed > 0 and currentSigils <= 0 after the subtraction.
bossDefeated(destroyed, left) == destroyed > 0 /\ left <= 0

\* checkGesture for a stroke of n points that classifies as g.
checkGesture(n, g) ==
    IF n < 2 THEN
        UNCHANGED <<enemies, particles, score, boss, gameState,
                    currentBiomeIndex, currentLevel, totalLevelsCleared>>
    ELSE IF g = NoMatch THEN
        /\ particles' = createParticles(particles, 1)
        /\ UNCHANGED <<enemies, score, boss, gameState, currentBiomeIndex,
                       currentLevel, totalLevelsCleared>>
    ELSE
        LET targets == matching(enemies, g)
            scoreToAdd == scoreToAddOf(targets, currentBiomeIndex, currentLevel)
            bossSigilsDestroyed == Len(Sigils(targets))
            sigilsLeft == sigilsAfter(boss.currentSigils, bossSigilsDestroyed)
            bossDown == bossDefeated(bossSigilsDestroyed, sigilsLeft)
        IN IF Len(targets) > 0 THEN
               /\ particles' = createParticles(particles, Len(targets))
               /\ enemies' = removeTargets(enemies, targets)
               /\ score' = score + (IF scoreToAdd > 0 THEN scoreToAdd ELSE 0)
                                  + (IF bossDown THEN BOSS_BONUS ELSE 0)
               /\ boss' = IF bossSigilsDestroyed > 0
                          THEN [boss EXCEPT !.currentSigils = sigilsLeft]
                          ELSE boss
               /\ IF bossDown THEN handleLevelComplete
                  ELSE UNCHANGED <<gameState, currentBiomeIndex, currentLevel,
                                   totalLevelsCleared>>
           ELSE
               /\ particles' = createParticles(particles, 1)
               /\ UNCHANGED <<enemies, score, boss, gameState,
                              currentBiomeIndex, currentLevel,
                              totalLevelsCleared>>

\* Keeps the score bounded: kills stop once the target is overshot.
scoreRoom(g) ==
    \/ gameState # "PLAYING"
    \/ scoreToAddOf(matching(enemies, g), currentBiomeIndex, currentLevel) = 0
    \/ score < targetScore + MaxOverkill * killValueOf(currentBiomeIndex, currentLevel)

\* Number of enemies the release removes.
killsOf(n, g) == IF n < 2 \/ g = NoMatch THEN 0 ELSE Len(matching(enemies, g))

\* What the release was: a stroke of two or more points that classified as
\* nothing ("miss"), or any other release.
releaseKind(n, g) == IF n >= 2 /\ g = NoMatch THEN "miss" ELSE "handleInputEnd"

\* Variant: a miss costs a point of health.
handleInputEndMissHurts(g) ==
    /\ last' = <<releaseKind(drawingPoints, g), killsOf(drawingPoints, g)>>
    /\ isDrawing
    /\ g \in gesturesOf(drawingPoints)
    /\ scoreRoom(g)
    /\ isDrawing' = FALSE
    /\ checkGesture(drawingPoints, g)
    /\ drawingPoints' = 0
    /\ health' = IF g = NoMatch THEN health - 1 ELSE health
    /\ UNCHANGED <<isPaused, lastSpawnTime, skills, cooldowns,
                   progress, now, levelUps,
                   pausedTickAt>>
    /\ UNCHANGED <<stroke, gesture, shownTarget>>

handleInputEnd(g) ==
    /\ last' = <<releaseKind(drawingPoints, g), killsOf(drawingPoints, g)>>
    /\ isDrawing
    /\ g \in gesturesOf(drawingPoints)
    /\ scoreRoom(g)
    /\ isDrawing' = FALSE
    /\ checkGesture(drawingPoints, g)
    /\ drawingPoints' = 0
    /\ UNCHANGED <<health, isPaused, lastSpawnTime, skills, cooldowns,
                   progress, now, levelUps,
                   pausedTickAt>>
    /\ UNCHANGED <<stroke, gesture, shownTarget>>

\* --------------------------------------------------------------- gameLoop
\* Variant: an expired time-slow clears its flag but keeps the time scale.
expireSkillsKeepsScale(sk, t) ==
    LET s1 == IF sk.shieldActive /\ t > sk.shieldEndTime
              THEN [sk EXCEPT !.shieldActive = FALSE] ELSE sk
    IN IF s1.timeSlowActive /\ t > s1.timeSlowEndTime
       THEN [s1 EXCEPT !.timeSlowActive = FALSE]
       ELSE s1

expireSkills(sk, t) ==
    LET s1 == IF sk.shieldActive /\ t > sk.shieldEndTime
              THEN [sk EXCEPT !.shieldActive = FALSE] ELSE sk
    IN IF s1.timeSlowActive /\ t > s1.timeSlowEndTime
       THEN [s1 EXCEPT !.timeSlowActive = FALSE, !.timeScale = FULL_SCALE]
       ELSE s1

\* timestamp - lastSpawnTime > 1500 / (1 + biome*0.2) on the boss level,
\* > 1800 / (1 + level*0.1 + biome*0.3) otherwise.
spawnDue(t, lastT, biome, level) ==
    IF level = BOSS_LEVEL
    THEN (t - lastT) * (5 + biome) > 7500
    ELSE (t - lastT) * (10 + level + 3 * biome) > 18000

Abs(x) == IF x < 0 THEN 0 - x ELSE x

\* The collision test uses the distance measured before this frame's move.
collides(e) == ~e.isBossSigil /\ e.dist < PROXIMITY * 10

\* Variant: the rotation pulls the sigil a pixel towards the centre.
rotateSigilInward(e, dt) == [e EXCEPT !.dist = e.dist - 10]

\* The rotation of a sigil about the centre: the new position is computed
\* from the old distance and the advanced bearing.  The bearing is not part
\* of the state (nothing but the drawing reads it).
rotateSigil(e, dt) == [e EXCEPT !.dist = e.dist]

\* Variant: no enemy moves.
stepEnemyStill(e, dt) == e

stepEnemy(e, dt) ==
    IF e.isBossSigil THEN rotateSigil(e, dt)
    ELSE [e EXCEPT !.dist = Abs(e.dist - (e.speed * dt) \div FULL_SCALE)]

moveEnemies(es, dt) ==
    LET Alive(e) == ~collides(e)
        kept == SelectSeq(es, Alive)
    IN [i \in 1..Len(kept) |-> stepEnemy(kept[i], dt)]

hitsOf(es) == Len(SelectSeq(es, collides))

\* Variant: the game ends only below zero.
isDeadBelowZero(h) == h < 0

\* newHealth <= 0
isDead(h) == h <= 0

\* Variant: collisions hurt even under the shield.
damageIgnoresShield(h, hits, shieldActive) == h - hits

\* Health after `hits` collisions: one setHealth(prev => prev - 1) each.
damage(h, hits, shieldActive) == IF shieldActive THEN h ELSE h - hits

\* Variant: frames keep being delivered whatever the game state.
loopRunningAlways == TRUE

\* The loop-management effect requests frames only while PLAYING and
\* cancels the pending frame when gameState changes.
loopRunning == gameState = "PLAYING"

\* Variant: a paused tick leaves the spawn timestamp alone.
pausedSpawnTimeKept(t, lastT) == lastT

\* lastSpawnTimeRef.current = timestamp, on every tick that finds the game
\* paused.
pausedSpawnTime(t, lastT) == t

\* Variant: a paused tick still advances the enemies.
tickPausedMoves ==
    /\ last' = <<"tickPaused", 0>>
    /\ loopRunning
    /\ isPaused
    /\ lastSpawnTime' = pausedSpawnTime(now, lastSpawnTime)
    /\ pausedTickAt' = now
    /\ enemies' = moveEnemies(enemies, skills.timeScale)
    /\ UNCHANGED <<gameState, score, health, currentBiomeIndex, currentLevel,
                   totalLevelsCleared, isPaused, particles, isDrawing,
                   drawingPoints, skills, cooldowns, progress, boss, now,
                   levelUps>>
    /\ UNCHANGED <<stroke, gesture, shownTarget>>

tickPaused ==
    /\ last' = <<"tickPaused", 0>>
    /\ loopRunning
    /\ isPaused
    /\ lastSpawnTime' = pausedSpawnTime(now, lastSpawnTime)
    /\ pausedTickAt' = now
    /\ UNCHANGED <<gameState, score, health, currentBiomeIndex, currentLevel,
                   totalLevelsCleared, isPaused, enemies, particles, isDrawing,
                   drawingPoints, skills, cooldowns, progress, boss, now,
                   levelUps>>
    /\ UNCHANGED <<stroke, gesture, shownTarget>>

\* Variant: the target has to be exceeded.
reachedStrictly(sc, target) == sc > target

\* score >= targetScore
reached(sc, target) == sc >= target

\* Variant: a normal level is complete whatever the score.
levelCompleteDueAlways == ~isBossLevel

levelCompleteDue == ~isBossLevel /\ reached(score, targetScore)

tickLevelComplete ==
    /\ last' = <<"tickLevelComplete", 0>>
    /\ loopRunning
    /\ ~isPaused
    /\ levelCompleteDue
    /\ skills' = expireSkills(skills, now)
    /\ handleLevelComplete
    /\ UNCHANGED <<score, health, isPaused, enemies, particles, isDrawing,
                   drawingPoints, lastSpawnTime, cooldowns, progress, boss,
                   now, levelUps>>
    /\ pausedTickAt' = -1
    /\ UNCHANGED <<stroke, gesture, shownTarget>>

\* An unpaused tick that does not complete the level; `repeats` tells
\* whether the id drawn by a spawn may equal one drawn before.
tickWith(repeats) ==
    /\ loopRunning
    /\ ~isPaused
    /\ ~levelCompleteDue
    /\ LET sk == expireSkills(skills, now)
           dt == sk.timeScale
           ring == isBossLevel /\ ~boss.active
           es1 == IF ring THEN spawnBossSigils(currentBiomeIndex).es ELSE enemies
           due == spawnDue(now, lastSpawnTime, currentBiomeIndex, currentLevel)
       IN /\ skills' = sk
          /\ boss' = IF ring
                     THEN spawnBossSigils(currentBiomeIndex).boss
                     ELSE boss
          /\ lastSpawnTime' = IF due THEN now ELSE lastSpawnTime
          /\ (due /\ ~spawnSuppressed(sk)) => Len(Regulars(es1)) < MaxRegular
          /\ \E id \in idDraws(es1, repeats),
                dist \in SpawnDists,
                speed \in speedsOf(currentBiomeIndex, currentLevel),
                symbol \in spellTypesOf(currentBiomeIndex, currentLevel) \cap SymbolChoices,
                culled \in 0..particles :
                LET es2 == IF due THEN spawnEnemy(es1, sk, id, dist, speed, symbol)
                                  ELSE es1
                    hits == hitsOf(es2)
                    h == damage(health, hits, sk.shieldActive)
                IN /\ last' = <<IF pausedTickAt >= 0 THEN "tickResume"
                                                        ELSE "tickRun", hits>>
                   /\ enemies' = moveEnemies(es2, dt)
                   /\ health' = h
                   /\ gameState' = IF h < health /\ isDead(h) THEN "GAME_OVER"
                                                               ELSE gameState
                   /\ particles' = createParticles(particles - culled,
                                                   IF hits > 0 THEN 1 ELSE 0)
    /\ UNCHANGED <<score, currentBiomeIndex, currentLevel, totalLevelsCleared,
                   isPaused, isDrawing, drawingPoints, cooldowns, progress,
                   now, levelUps>>
    /\ pausedTickAt' = -1
    /\ UNCHANGED <<stroke, gesture, shownTarget>>

\* The tick with every id drawn distinct from the ids in the list.
tickRun == tickWith(FALSE)

\* The tick with ids drawn from IdChoices, repeats included.
tickRunAnyId == tickWith(TRUE)

\* ------------------------------------------------------------------- Next
Next ==
    \/ startGame
    \/ restartGame
    \/ nextLevelClick
    \/ togglePause
    \/ \E d \in Deltas : Elapse(d)
    \/ \E s \in SkillChoices : skillClick(s)
    \/ handleInputStart
    \/ handleInputMove
    \/ \E g \in GestureChoices : handleInputEnd(g)
    \/ tickPaused
    \/ tickLevelComplete
    \/ tickRun

Spec == Init /\ [][Next]_vars

\* --------------------------------------------- time-slow and shield timing
\* What every snapshot below shares with Init.
FreshSession ==
    /\ isPaused = FALSE
    /\ particles = 0
    /\ isDrawing = FALSE
    /\ drawingPoints = 0
    /\ lastSpawnTime = 0
    /\ skills = InitSkills
    /\ cooldowns = InitCooldowns
    /\ progress = NoProgress
    /\ now = 0
    /\ last = <<"init", 0>>
    /\ pausedTickAt = -1
    /\ levelUps = 0
    /\ stroke = NoStroke
    /\ gesture = NoMatch
    /\ shownTarget = NoTarget

\* Level 1 of the second biome, just entered: eleven levels cleared, so the
\* shield and the hourglass are unlocked; the first boss has been beaten.
InitSlow ==
    /\ gameState = "PLAYING"
    /\ currentBiomeIndex = 1
    /\ currentLevel = 1
    /\ totalLevelsCleared = clearedAt(1, 1)
    /\ score = 0
    /\ health = maxHealth
    /\ enemies = <<>>
    /\ boss = [active |-> FALSE, maxSigils |-> sigilCountOf(0),
               currentSigils |-> 0]
    /\ FreshSession

\* The player only uses the hourglass and the shield while frames run.
NextSlow ==
    \/ \E d \in Deltas : Elapse(d)
    \/ skillClick("hourglass")
    \/ skillClick("shield")
    \/ tickRun

SpecSlow == InitSlow /\ [][NextSlow]_vars

\* ------------------------------------------------------ repeated id draws
\* Level 6 of the first biome, one kill short of the target.
InitIds ==
    /\ gameState = "PLAYING"
    /\ currentBiomeIndex = 0
    /\ currentLevel = 6
    /\ totalLevelsCleared = clearedAt(0, 6)
    /\ score = startScoreOf(0, 6)
    /\ health = maxHealth
    /\ enemies = <<>>
    /\ boss = InitBoss
    /\ FreshSession

\* Frames and strokes, with spawn ids drawn from IdChoices.
NextIds ==
    \/ \E d \in Deltas : Elapse(d)
    \/ handleInputStart
    \/ handleInputMove
    \/ \E g \in GestureChoices : handleInputEnd(g)
    \/ tickLevelComplete
    \/ tickRunAnyId

SpecIds == InitIds /\ [][NextIds]_vars

\* ------------------------------------------- a frame after the completion
\* handleLevelComplete as the gameLoop of an earlier render calls it: that
\* render saw a normal level, so the level is advanced by the functional
\* update prev => prev + 1, applied to the level as it now stands.
handleLevelCompleteStale ==
    /\ currentLevel' = currentLevel + 1
    /\ currentBiomeIndex' = currentBiomeIndex
    /\ totalLevelsCleared' = totalLevelsCleared + 1
    /\ gameState' = "LEVEL_COMPLETE"

\* The frame requested by the completing tick, run before the cleanup of the
\* loop management effect has cancelled it.  It runs the gameLoop of the
\* render in which the level was still played: not paused, not the boss
\* level, the score at its target.
tickStale ==
    /\ last = <<"tickLevelComplete", 0>>
    /\ last' = <<"tickStale", 0>>
    /\ skills' = expireSkills(skills, now)
    /\ handleLevelCompleteStale
    /\ UNCHANGED <<score, health, isPaused, enemies, particles, isDrawing,
                   drawingPoints, lastSpawnTime, cooldowns, progress, boss,
                   now, levelUps, pausedTickAt>>
    /\ UNCHANGED <<stroke, gesture, shownTarget>>

\* Level 6 of the first biome, with the requested frame allowed to run
\* before the loop is cancelled.
NextStale ==
    \/ \E d \in Deltas : Elapse(d)
    \/ handleInputStart
    \/ handleInputMove
    \/ \E g \in GestureChoices : handleInputEnd(g)
    \/ tickLevelComplete
    \/ tickRun
    \/ tickStale

SpecStale == InitIds /\ [][NextStale]_vars

\* ------------------------------------------------------- frames keep coming
\* Time passes while the field has room for the projectile that falls due.
ElapseLive(d) ==
    /\ Len(Regulars(enemies)) < MaxRegular
    /\ Elapse(d)

NextLive ==
    \/ \E d \in Deltas : ElapseLive(d)
    \/ skillClick("hourglass")
    \/ tickRun

\* The frame loop requests a frame after every frame while PLAYING.
SpecLive == InitSlow /\ [][NextLive]_vars /\ WF_vars(tickRun)

\* ------------------------------------------------------- utils/gesture.ts
\* A stroke is a record [pts, unit]: pts is the sequence of recorded points,
\* each a pair <<x, y>> of integers counted in 1/unit of a pixel, so that
\* evenly spaced points with fractional pixel coordinates are represented
\* exactly.  Every threshold the classifier states in pixels is multiplied
\* by unit; every threshold it states as a ratio is compared by cross
\* multiplication.  Distances are rounded down to 1/unit of a pixel.

\* Longest stroke (in points) of the explored line and dot families.
MaxStrokeLen == 12
\* Most pieces each side of an explored outline is divided into.
MaxPieces == 4

\* The value of gesture before recognizeGesture has been applied.
Pending == "pending"

\* Largest integer whose square is a 32-bit integer.
ROOT_LIMIT == 46340

px(p) == p[1]
py(p) == p[2]

\* The largest r in lo..hi with r * r <= n.
RECURSIVE rootBetween(_, _, _)
rootBetween(n, lo, hi) ==
    IF lo = hi THEN lo
    ELSE LET mid == (lo + hi + 1) \div 2
         IN IF mid * mid <= n THEN rootBetween(n, mid, hi)
            ELSE rootBetween(n, lo, mid - 1)

\* Math.hypot, rounded down.
hypot(dx, dy) == rootBetween(dx * dx + dy * dy, 0, ROOT_LIMIT)

getDistance(p1, p2) == hypot(px(p2) - px(p1), py(p2) - py(p1))

RECURSIVE pathLengthUpTo(_, _)
pathLengthUpTo(pts, i) ==
    IF i < 2 THEN 0
    ELSE pathLengthUpTo(pts, i - 1) + getDistance(pts[i - 1], pts[i])

getPathLength(pts) == pathLengthUpTo(pts, Len(pts))

ccw(p1, p2, p3) ==
    (py(p3) - py(p1)) * (px(p2) - px(p1)) > (py(p2) - py(p1)) * (px(p3) - px(p1))

doLinesIntersect(a, b, c, d) ==
    /\ ccw(a, c, d) # ccw(b, c, d)
    /\ ccw(a, b, c) # ccw(a, b, d)

MinOf(S) == CHOOSE v \in S : \A w \in S : v <= w
MaxOf(S) == CHOOSE v \in S : \A w \in S : v >= w

\* Sum of |coordinate difference| over the consecutive points of pts[lo..hi].
RECURSIVE travel(_, _, _, _)
travel(pts, c, lo, hi) ==
    IF hi <= lo THEN 0
    ELSE travel(pts, c, lo, hi - 1) + Abs(pts[hi][c] - pts[hi - 1][c])

\* The chord step of the intersection scan.
STRIDE == 2

\* The pairs (i, j) of zero-based chord starts the scan compares.
scanPairs(n) ==
    {ij \in (0..(n - 1)) \X (0..(n - 1)) :
        /\ ij[1] % STRIDE = 0
        /\ ij[1] < n - STRIDE - 1
        /\ ij[2] >= ij[1] + STRIDE + 2
        /\ (ij[2] - ij[1]) % STRIDE = 0
        /\ ij[2] < n - STRIDE - 1}

countIntersections(pts, totalLength, unit) ==
    IF totalLength > 60 * unit
    THEN Cardinality({ij \in scanPairs(Len(pts)) :
            doLinesIntersect(pts[ij[1] + 1], pts[ij[1] + 1 + STRIDE],
                             pts[ij[2] + 1], pts[ij[2] + 1 + STRIDE])})
    ELSE 0

\* x || 1 for a length x counted in 1/unit of a pixel.
orOne(x, unit) == IF x = 0 THEN unit ELSE x

\* The measurements recognizeGesture takes of a stroke of at least one point.
measure(s) ==
    LET pts == s.pts
        n == Len(pts)
        xs == {px(pts[i]) : i \in 1..n}
        ys == {py(pts[i]) : i \in 1..n}
        total == getPathLength(pts)
    IN [n |-> n,
        unit |-> s.unit,
        start |-> pts[1],
        end |-> pts[n],
        totalLength |-> total,
        startEndDist |-> getDistance(pts[1], pts[n]),
        minX |-> MinOf(xs),
        maxX |-> MaxOf(xs),
        minY |-> MinOf(ys),
        maxY |-> MaxOf(ys),
        width |-> MaxOf(xs) - MinOf(xs),
        height |-> MaxOf(ys) - MinOf(ys),
        intersectionCount |-> countIntersections(pts, total, s.unit)]

\* startEndDist < totalLength * 0.25
isClosed(m) == 4 * m.startEndDist < m.totalLength

\* Variant: the linearity must exceed 1.
isLinearAboveOne(m) == 100 * m.startEndDist > 100 * orOne(m.totalLength, m.unit)

\* linearity > 0.85, with linearity = startEndDist / (totalLength || 1)
isLinear(m) == 100 * m.startEndDist > 85 * orOne(m.totalLength, m.unit)

\* aspectRatio > 0.4 && aspectRatio < 2.5
aspectInRange(m) ==
    /\ 10 * m.width > 4 * orOne(m.height, m.unit)
    /\ 10 * m.width < 25 * orOne(m.height, m.unit)

\* Rule 1: the "8" shape.
eightRule(m) ==
    isClosed(m) /\ m.intersectionCount >= 1 /\ m.height > 30 * m.unit

\* Rule 2: the X shape.
xRule(m) ==
    ~isClosed(m) /\ m.intersectionCount >= 1 /\ aspectInRange(m)

\* Variant: the linear rule looks at the bounding box only and takes a tie
\* for dominance.
linearRuleByBoxOnly(m) ==
    IF m.intersectionCount = 0
    THEN IF 2 * m.width >= 3 * m.height THEN "HORIZONTAL"
         ELSE IF 2 * m.height >= 3 * m.width THEN "VERTICAL"
         ELSE NoMatch
    ELSE NoMatch

\* Rule 3: the symbol of the linear rule, or no-match when it falls through.
linearRule(m) ==
    IF isLinear(m) /\ m.intersectionCount = 0
    THEN IF 2 * m.width > 3 * m.height THEN "HORIZONTAL"
         ELSE IF 2 * m.height > 3 * m.width THEN "VERTICAL"
         ELSE NoMatch
    ELSE NoMatch

\* start.y < minY + height * 0.3
startTop(m) == 10 * (py(m.start) - m.minY) < 3 * m.height

\* Variant: the "7" rule does not ask for a stroke without crossings.
sevenRuleAnyCrossing(s, m) ==
    /\ startTop(m)
    /\ m.width > 20 * m.unit
    /\ m.height > 20 * m.unit
    /\ LET splitIndex == (4 * m.n) \div 10
           dx1 == travel(s.pts, 1, 1, splitIndex)
           dy1 == travel(s.pts, 2, 1, splitIndex)
           lastStart == s.pts[splitIndex + 1]
           lastEnd == s.pts[m.n]
       IN /\ 2 * dx1 > 3 * dy1
          /\ 10 * (py(lastEnd) - py(lastStart)) > 4 * m.height

\* Rule 4: the "7" shape.
sevenRule(s, m) ==
    /\ startTop(m)
    /\ m.width > 20 * m.unit
    /\ m.height > 20 * m.unit
    /\ m.intersectionCount = 0
    /\ LET splitIndex == (4 * m.n) \div 10
           dx1 == travel(s.pts, 1, 1, splitIndex)
           dy1 == travel(s.pts, 2, 1, splitIndex)
           lastStart == s.pts[splitIndex + 1]
           lastEnd == s.pts[m.n]
       IN /\ 2 * dx1 > 3 * dy1
          /\ 10 * (py(lastEnd) - py(lastStart)) > 4 * m.height

\* Rule 5: the C shape.
cRule(s, m) ==
    /\ 5 * m.startEndDist > m.totalLength
    /\ m.intersectionCount = 0
    /\ 2 * (px(m.start) - m.minX) > m.width
    /\ 2 * (px(m.end) - m.minX) > m.width
    /\ 10 * (px(s.pts[(m.n \div 2) + 1]) - m.minX) < 4 * m.width
    /\ 2 * m.height > m.width

\* Rule 6: the S shape.
sRule(s, m) ==
    /\ m.height > 30 * m.unit
    /\ m.intersectionCount = 0
    /\ startTop(m)
    /\ 10 * (m.maxY - py(m.end)) < 3 * m.height
    /\ LET half == m.n \div 2
           minX1 == MinOf({px(s.pts[i]) : i \in 1..half})
           maxX2 == MaxOf({px(s.pts[i]) : i \in (half + 1)..m.n})
       IN /\ 100 * (px(m.start) - minX1) > 15 * m.width
          /\ 100 * (maxX2 - px(m.end)) > 15 * m.width

\* Rule 7: the lightning (Z) shape.
lightningRule(s, m) ==
    /\ travel(s.pts, 1, 1, m.n) > 2 * orOne(m.width, m.unit)
    /\ py(m.start) < py(m.end)
    /\ 10 * m.startEndDist < 8 * orOne(m.totalLength, m.unit)
    /\ m.intersectionCount = 0

\* Variant: a closed stroke without a crossing is given the round symbol of
\* the earlier classifier.
classifyWithCircle(s) ==
    LET m == measure(s)
    IN IF eightRule(m) THEN "EIGHT_SHAPE"
       ELSE IF isClosed(m) THEN "CIRCLE"
       ELSE IF xRule(m) THEN "X_SHAPE"
       ELSE IF linearRule(m) # NoMatch THEN linearRule(m)
       ELSE NoMatch

\* The rule cascade, for a stroke of at least the minimum point count.
classify(s) ==
    LET m == measure(s)
    IN IF eightRule(m) THEN "EIGHT_SHAPE"
       ELSE IF xRule(m) THEN "X_SHAPE"
       ELSE IF linearRule(m) # NoMatch THEN linearRule(m)
       ELSE IF sevenRule(s, m) THEN "SEVEN_SHAPE"
       ELSE IF cRule(s, m) THEN "C_SHAPE"
       ELSE IF sRule(s, m) THEN "S_SHAPE"
       ELSE IF lightningRule(s, m) THEN "LIGHTNING"
       ELSE NoMatch

\* Variant: the minimum point count of the earlier classifier.
tooShortBelowEight(n) == n < 8

tooShort(n) == n < MIN_POINTS

recognizeGesture(s) ==
    IF tooShort(Len(s.pts)) THEN NoMatch ELSE classify(s)

\* ------------------------------------------------------- explored strokes
\* The stroke through the vertices vs (in pixels), each side divided into m
\* equal pieces: unit m, (Len(vs) - 1) * m + 1 points.
poly(vs, m) ==
    LET n == (Len(vs) - 1) * m + 1
        at(k) == LET side == ((k - 1) \div m) + 1
                     t == (k - 1) % m
                 IN IF side = Len(vs) THEN <<m * px(vs[side]), m * py(vs[side])>>
                    ELSE <<(m - t) * px(vs[side]) + t * px(vs[side + 1]),
                           (m - t) * py(vs[side]) + t * py(vs[side + 1])>>
    IN [pts |-> [k \in 1..n |-> at(k)], unit |-> m]

\* n points evenly spaced along the segment from (0, 0) to v.
evenLine(n, v) == poly(<<<<0, 0>>, v>>, n - 1)

\* n copies of the point p.
dot(n, p) == [pts |-> [k \in 1..n |-> p], unit |-> 1]

LineEnds == {<<200, 0>>, <<0, 200>>, <<200, 200>>, <<200, 100>>}
DotPlaces == {<<0, 0>>, <<120, 80>>}

Lines == {evenLine(n, v) : n \in 2..MaxStrokeLen, v \in LineEnds}
Dots == {dot(n, p) : n \in 1..MaxStrokeLen, p \in DotPlaces}

\* Outlines (vertices in pixels, y growing downwards).
crossOutline == <<<<0, 0>>, <<100, 100>>, <<100, 0>>, <<0, 100>>>>
eightOutline == <<<<50, 0>>, <<0, 25>>, <<100, 75>>, <<50, 100>>,
                  <<0, 75>>, <<100, 25>>, <<50, 0>>>>
sevenOutline == <<<<0, 0>>, <<60, 0>>, <<100, 0>>, <<50, 100>>>>
cOutline == <<<<60, 0>>, <<0, 40>>, <<0, 60>>, <<60, 100>>>>
sOutline == <<<<40, 0>>, <<0, 30>>, <<40, 70>>, <<0, 100>>>>
zigzagOutline == <<<<0, 0>>, <<40, 30>>, <<0, 60>>, <<40, 90>>>>
Outlines == {crossOutline, eightOutline, sevenOutline, cOutline, sOutline,
             zigzagOutline}

Shapes == {poly(vs, m) : vs \in Outlines, m \in 2..MaxPieces}

\* n points evenly spaced around a circle of radius 50 about the origin, in
\* hundredths of a pixel, for n = 8 and n = 12.
circle8 ==
    [pts |-> <<<<5000, 0>>, <<3536, 3536>>, <<0, 5000>>, <<-3536, 3536>>,
               <<-5000, 0>>, <<-3536, -3536>>, <<0, -5000>>, <<3536, -3536>>>>,
     unit |-> 100]
circle12 ==
    [pts |-> <<<<5000, 0>>, <<4330, 2500>>, <<2500, 4330>>, <<0, 5000>>,
               <<-2500, 4330>>, <<-4330, 2500>>, <<-5000, 0>>,
               <<-4330, -2500>>, <<-2500, -4330>>, <<0, -5000>>,
               <<2500, -4330>>, <<4330, -2500>>>>,
     unit |-> 100]
Circles == {circle8, circle12}

\* A nearly straight stroke from (0, 0) to (200, 100) with a small loop
\* near its start, in tenths of a pixel.
kinkedLine ==
    [pts |-> <<<<0, 0>>, <<100, 40>>, <<200, 100>>, <<160, 120>>,
               <<120, 100>>, <<140, 70>>, <<160, 40>>, <<500, 250>>,
               <<1000, 500>>, <<2000, 1000>>>>,
     unit |-> 10]

\* The same loop on a flatter stroke, from (0, 0) to (200, 50).
flatKinkedLine ==
    [pts |-> <<<<0, 0>>, <<100, 40>>, <<200, 100>>, <<160, 120>>,
               <<120, 100>>, <<140, 70>>, <<160, 40>>, <<500, 150>>,
               <<1000, 300>>, <<2000, 500>>>>,
     unit |-> 10]

Strokes == Lines \cup Dots \cup Shapes \cup Circles
           \cup {kinkedLine, flatKinkedLine}

\* The menu, with a stroke about to be classified.
InitGesture ==
    /\ gameState = "MENU"
    /\ currentBiomeIndex = 0
    /\ currentLevel = 1
    /\ totalLevelsCleared = 0
    /\ score = 0
    /\ health = maxHealth
    /\ enemies = <<>>
    /\ boss = InitBoss
    /\ isPaused = FALSE
    /\ particles = 0
    /\ isDrawing = FALSE
    /\ drawingPoints = 0
    /\ lastSpawnTime = 0
    /\ skills = InitSkills
    /\ cooldowns = InitCooldowns
    /\ progress = NoProgress
    /\ now = 0
    /\ last = <<"init", 0>>
    /\ pausedTickAt = -1
    /\ levelUps = 0
    /\ stroke \in Strokes
    /\ gesture = Pending
    /\ shownTarget = NoTarget

\* One call of recognizeGesture on the stroke.
classifyStroke ==
    /\ gesture' = recognizeGesture(stroke)
    /\ UNCHANGED <<gameState, score, health, currentBiomeIndex, currentLevel,
                   totalLevelsCleared, isPaused, enemies, particles,
                   isDrawing, drawingPoints, lastSpawnTime, skills,
                   cooldowns, progress, boss, now, levelUps, last,
                   pausedTickAt, stroke, shownTarget>>

NextGesture == classifyStroke

SpecGesture == InitGesture /\ [][NextGesture]_vars

\* ------------------------------------------------------- the target score
\* Any progression point, with the target score about to be computed.
InitTarget ==
    /\ gameState = "PLAYING"
    /\ currentBiomeIndex \in 0..(NUM_BIOMES - 1)
    /\ currentLevel \in 1..BOSS_LEVEL
    /\ totalLevelsCleared = clearedAt(currentBiomeIndex, currentLevel)
    /\ score = 0
    /\ health = maxHealth
    /\ enemies = <<>>
    /\ boss = InitBoss
    /\ isPaused = FALSE
    /\ particles = 0
    /\ isDrawing = FALSE
    /\ drawingPoints = 0
    /\ lastSpawnTime = 0
    /\ skills = InitSkills
    /\ cooldowns = InitCooldowns
    /\ progress = NoProgress
    /\ now = 0
    /\ last = <<"init", 0>>
    /\ pausedTickAt = -1
    /\ levelUps = 0
    /\ stroke = NoStroke
    /\ gesture = NoMatch
    /\ shownTarget = NoTarget

\* A render computes the level's target score.
renderTarget ==
    /\ shownTarget' = targetScore
    /\ UNCHANGED <<gameState, score, health, currentBiomeIndex, currentLevel,
                   totalLevelsCleared, isPaused, enemies, particles,
                   isDrawing, drawingPoints, lastSpawnTime, skills,
                   cooldowns, progress, boss, now, levelUps, last,
                   pausedTickAt, stroke, gesture>>

NextTarget == renderTarget

SpecTarget == InitTarget /\ [][NextTarget]_vars

TypeOK ==
    /\ gameState \in {"MENU", "PLAYING", "LEVEL_COMPLETE", "GAME_OVER"}
    /\ currentLevel \in 1..BOSS_LEVEL
    /\ currentBiomeIndex \in 0..(NUM_BIOMES - 1)
    /\ particles \in 0..MaxParticleBursts
    /\ drawingPoints \in 0..MaxPoints

\* ================================================================ claims

\* A tick that ran while not paused.
unpausedTick == tickRun \/ tickLevelComplete

\* Every enemy of the next state is an enemy of this state, unmoved.
noSpawnNoMove ==
    \A i \in DOMAIN enemies' : \E j \in DOMAIN enemies : enemies'[i] = enemies[j]

\* The step added a projectile to the enemy list.
spawnedRegular ==
    \E i \in DOMAIN enemies' :
        ~enemies'[i].isBossSigil /\ enemies'[i].id \notin Ids(enemies)

\* C1: activating an ability strictly before its cooldown end changes
\* nothing: cooldowns, shield and time-slow flags and end times, time scale,
\* enemy list and particle list stay as they were.
C1_CooldownActivationIsNoOp ==
    [][\A s \in Skills :
          (skillClick(s) /\ now < cooldowns[s])
              => UNCHANGED <<cooldowns, skills, enemies, particles>>]_vars

C3_TargetReachedTickCompletes ==
    [][(gameState = "PLAYING" /\ currentLevel <= 10 /\ score >= targetScore)
          => /\ health' = health
             /\ noSpawnNoMove
             /\ unpausedTick => /\ gameState' = "LEVEL_COMPLETE"
                                /\ enemies' = enemies
                                /\ lastSpawnTime' = lastSpawnTime]_vars

\* C3 witness: the tick after the score reached the target of level 6
\* exactly completed the level with an enemy still on the field.
C3_Witness ==
    /\ last = <<"tickLevelComplete", 0>>
    /\ gameState = "LEVEL_COMPLETE"
    /\ currentLevel = 7
    /\ score = targetScoreOf(0, 6)
    /\ enemies # <<>>

C5_ResumeMeasuresFromLastPausedTick ==
    [][(tickRun /\ pausedTickAt >= 0 /\ spawnedRegular)
          => IF currentLevel = BOSS_LEVEL
             THEN (now - pausedTickAt) * (5 + currentBiomeIndex) > 7500
             ELSE (now - pausedTickAt) * (10 + currentLevel + 3 * currentBiomeIndex)
                      > 18000]_vars

\* C5 witness: time passed, a paused tick ran, and the tick after resuming
\* spawned nothing.
C5_Witness ==
    /\ last = <<"tickResume", 0>>
    /\ gameState = "PLAYING"
    /\ now > 0
    /\ lastSpawnTime = now
    /\ enemies = <<>>

\* C6: health and score are never negative.
C6_HealthAndScoreNonNegative == health >= 0 /\ score >= 0

\* C7: every step that enters PLAYING leaves score 0, no enemies, no
\* particles, full health and the boss inactive; while PLAYING the score
\* never drops and health never rises, and a tick neither changes the score
\* nor clears the boss flag.
C7_EnteringPlayingResets ==
    [][/\ (gameState # "PLAYING" /\ gameState' = "PLAYING")
             => /\ score' = 0
                /\ enemies' = <<>>
                /\ particles' = 0
                /\ health' = maxHealth
                /\ ~boss'.active
       /\ gameState = "PLAYING" => (score' >= score /\ health' <= health)
       /\ (tickPaused \/ unpausedTick)
             => (score' = score /\ (boss.active => boss'.active))]_vars

\* C7 witness: level 7 was entered from the level-complete screen reached
\* with the target score of level 6.
C7_Witness ==
    /\ last = <<"nextLevelClick", 0>>
    /\ gameState = "PLAYING"
    /\ currentLevel = 7
    /\ score = 0 /\ health = maxHealth /\ enemies = <<>> /\ particles = 0

near == {i \in DOMAIN enemies :
            ~enemies[i].isBossSigil /\ enemies[i].dist < PROXIMITY * 10}

\* The step removed every projectile of `near` and took one health point for
\* each unless the shield was up.
collisionsResolved ==
    /\ \A i \in near : enemies[i].id \notin Ids(enemies')
    /\ health' = IF skills'.shieldActive THEN health
                                         ELSE health - Cardinality(near)

\* C10 as stated: every unpaused tick removes each non-sigil enemy inside
\* the proximity radius, at one health point each unless the shield is up.
C10_EveryUnpausedTickResolvesCollisions ==
    [][unpausedTick => collisionsResolved]_vars

\* C10 amended: every unpaused tick that does not take the level-complete
\* transition removes each non-sigil enemy inside the proximity radius, at
\* one health point each unless the shield is up.
C10_RunningTickResolvesCollisions ==
    [][tickRun => collisionsResolved]_vars

\* C10 witness: a tick removed a projectile under the shield and health is
\* what it was.
C10_Witness ==
    /\ last[1] \in {"tickRun", "tickResume"}
    /\ last[2] = 1
    /\ skills.shieldActive
    /\ currentLevel = BOSS_LEVEL
    /\ health = startHealthOf(6, BOSS_LEVEL)
    /\ gameState = "PLAYING"

\* C11: activating the bomb removes every non-sigil enemy and keeps every
\* sigil; sigil count, score, health, level, biome and game state stay.
C11_BombRemovesOnlyNonSigils ==
    [][skillClick("bomb")
          => /\ enemies' = SelectSeq(enemies, IsSigil)
             /\ boss'.currentSigils = boss.currentSigils
             /\ UNCHANGED <<score, health, currentLevel, currentBiomeIndex,
                            gameState>>]_vars

\* C11 witness: the bomb went off on a boss level with a projectile and
\* sigils on the field; the sigils are still there.
C11_Witness ==
    /\ last = <<"bomb", 1>>
    /\ currentLevel = BOSS_LEVEL
    /\ Len(enemies) = boss.currentSigils
    /\ boss.currentSigils > 0
    /\ Regulars(enemies) = <<>>

\* C12: while time-slow is active with the time scale at its slowed value,
\* no unpaused tick adds an enemy to the list.
C12_NoSpawnWhileSlowed ==
    [][(unpausedTick /\ skills'.timeSlowActive /\ skills'.timeScale = SLOW_SCALE)
          => ~spawnedRegular]_vars

\* Every projectile outside the proximity radius advanced by its whole speed.
movedAtFullSpeed ==
    \A i \in DOMAIN enemies :
        (~enemies[i].isBossSigil /\ i \notin near)
            => \E j \in DOMAIN enemies' :
                  /\ enemies'[j].id = enemies[i].id
                  /\ enemies'[j].dist = Abs(enemies[i].dist - enemies[i].speed)

\* C13: an unpaused tick later than the shield end clears the shield flag
\* and absorbs no collision; an unpaused tick later than the time-slow end
\* clears the time-slow flag, restores the time scale to 1.0 and moves at
\* full speed.
C13_ExpiryPrecedesSimulation ==
    [][unpausedTick
          => /\ now > skills.shieldEndTime
                   => /\ ~skills'.shieldActive
                      /\ tickRun => health' = health - Cardinality(near)
             /\ now > skills.timeSlowEndTime
                   => /\ ~skills'.timeSlowActive
                      /\ skills'.timeScale = FULL_SCALE
                      /\ tickRun => movedAtFullSpeed]_vars

\* C13 witness: both abilities were used and have run out, and the tick
\* after their end took a health point for a collision.
C13_Witness ==
    /\ last = <<"tickRun", 1>>
    /\ skills.shieldEndTime > 0 /\ now > skills.shieldEndTime
    /\ skills.timeSlowEndTime > 0 /\ now > skills.timeSlowEndTime
    /\ ~skills.shieldActive /\ ~skills.timeSlowActive
    /\ skills.timeScale = FULL_SCALE
    /\ health = maxHealth - 1

\* Any tick: paused, level-completing or running.
anyTick == tickPaused \/ unpausedTick

\* C14: a tick executed while paused changes nothing but the last-spawn
\* timestamp.
C14_PausedTickFrame ==
    [][tickPaused
          => UNCHANGED <<enemies, particles, health, score, skills,
                         currentLevel, currentBiomeIndex, totalLevelsCleared,
                         gameState, boss, cooldowns, isPaused>>]_vars

\* C14 witness: a paused tick recorded a later timestamp with a projectile
\* on the field.
C14_Witness ==
    /\ last = <<"tickPaused", 0>>
    /\ isPaused
    /\ now > 0 /\ lastSpawnTime = now
    /\ Regulars(enemies) # <<>>

C16_GameOverAtZeroHealth ==
    [][/\ (tickRun /\ health' < health /\ health' <= 0)
             => gameState' = "GAME_OVER"
       /\ (gameState # "GAME_OVER" /\ gameState' = "GAME_OVER")
             => /\ gameState = "PLAYING"
                /\ tickRun
                /\ ~skills'.shieldActive
                /\ health > 0
                /\ health' <= 0]_vars

\* C16 witness: one unshielded collision took the last health point and the
\* game is over.
C16_Witness ==
    /\ gameState = "GAME_OVER"
    /\ health = 0
    /\ last = <<"tickRun", 1>>
    /\ ~skills.shieldActive

\* C17: a release whose stroke classifies as no-match leaves the enemy
\* list, score, health, sigil count, level, biome, cleared counter, ability
\* state and game state as they were; only the particle list may change.
C17_MissChangesNothing ==
    [][(handleInputEnd(NoMatch) /\ drawingPoints >= 2)
          => UNCHANGED <<enemies, score, health, boss, currentLevel,
                         currentBiomeIndex, totalLevelsCleared, skills,
                         cooldowns, gameState>>]_vars

\* C17 witness: a stroke was released as a miss with a projectile on the
\* field, which is still there, and the miss burst was emitted.
C17_Witness ==
    /\ last = <<"miss", 0>>
    /\ gameState = "PLAYING"
    /\ Regulars(enemies) # <<>>
    /\ particles > 0

\* C18: no two entries of the enemy list have the same id.
C18_UniqueIds ==
    \A i, j \in DOMAIN enemies : i # j => enemies[i].id # enemies[j].id

\* An unpaused tick on level 11 leaves the boss flag set, and the flag is
\* cleared only by a step that enters PLAYING.
bossFlagSteps ==
    [][/\ (tickRun /\ currentLevel = BOSS_LEVEL) => boss'.active
       /\ (boss.active /\ ~boss'.active)
             => (gameState # "PLAYING" /\ gameState' = "PLAYING")]_vars

\* C19 as stated: the boss flag is set on level 11 from the first unpaused
\* tick on, and is never set while the level is not 11.
C19_BossFlagOnlyOnBossLevel ==
    /\ bossFlagSteps
    /\ [](boss.active => currentLevel = BOSS_LEVEL)

\* C19 amended: the boss flag is set on level 11 from the first unpaused
\* tick on, and is never set while a level other than 11 is being played.
C19_BossFlagOnlyOnBossLevelPlayed ==
    /\ bossFlagSteps
    /\ []((boss.active /\ gameState = "PLAYING") => currentLevel = BOSS_LEVEL)

\* C19 witness: after a restart of the last boss level a tick spawned the
\* full ring and set the flag.
C19_Witness ==
    /\ last[1] = "tickRun"
    /\ gameState = "PLAYING"
    /\ currentLevel = BOSS_LEVEL
    /\ boss.active
    /\ boss.currentSigils = sigilCountOf(currentBiomeIndex)

\* Cleared-level count at which the tutorial says an ability unlocks.
tutorialUnlockAt(s) == CASE s = "shield" -> 10
                         [] s = "hourglass" -> 15
                         [] s = "bomb" -> 30

\* C20: an ability takes effect only once the cleared-level counter has
\* reached the threshold the tutorial states for it.
C20_TutorialThresholds ==
    [][\A s \in Skills :
          skillClick(s) => totalLevelsCleared >= tutorialUnlockAt(s)]_vars


\* ------------------------------------------------------------ classifier
\* recognizeGesture has been applied to the stroke.
classified == gesture # Pending

strokeLen == Len(stroke.pts)

\* Every point of the stroke is the same point.
allIdentical == \A i \in DOMAIN stroke.pts : stroke.pts[i] = stroke.pts[1]

\* C21: a stroke with fewer points than the minimum point count classifies
\* as no-match whatever its coordinates are, the geometric rules not being
\* consulted.
C21_ShortStrokeIsNoMatch ==
    (classified /\ strokeLen < MIN_POINTS) => gesture = NoMatch

\* C21 witness: a stroke one point short of the minimum, which the rule
\* cascade would give a symbol, was classified as no-match.
C21_Witness ==
    /\ classified
    /\ strokeLen = MIN_POINTS - 1
    /\ classify(stroke) # NoMatch
    /\ gesture = NoMatch

\* C22: a stroke all of whose points are identical classifies as no-match,
\* for every point count, the counts from the minimum on included.
C22_IdenticalPointsIsNoMatch ==
    (classified /\ allIdentical) => gesture = NoMatch

\* C22 witness: a stroke of identical points that passes the minimum point
\* count was classified.
C22_Witness ==
    /\ classified
    /\ allIdentical
    /\ strokeLen >= MIN_POINTS
    /\ stroke.pts[1] # <<0, 0>>

\* C23: points evenly spaced along the segment from (0, 0) to (200, 0), at
\* least the minimum point count of them, classify as the horizontal-line
\* symbol; along the segment from (0, 0) to (0, 200), as the vertical-line
\* symbol.
C23_AxisLines ==
    \A n \in MIN_POINTS..(MaxStrokeLen + 1) :
        /\ (classified /\ stroke = evenLine(n, <<200, 0>>))
              => gesture = "HORIZONTAL"
        /\ (classified /\ stroke = evenLine(n, <<0, 200>>))
              => gesture = "VERTICAL"

\* C23 witness: the vertical stroke of exactly the minimum point count, whose
\* points fall on fractions of a pixel, was classified.
C23_Witness ==
    /\ classified
    /\ stroke = evenLine(MIN_POINTS, <<0, 200>>)
    /\ gesture = "VERTICAL"

\* C24: a stroke of 8 or more points evenly spaced around a circle of radius
\* 50 classifies as the round symbol.
C24_CircleIsRound ==
    (classified /\ stroke \in Circles) => gesture = "CIRCLE"

linearTest(m) ==
    /\ isLinear(m)
    /\ \/ 2 * m.width > 3 * m.height
       \/ 2 * m.height > 3 * m.width

\* C26: the result is the symbol of the first rule that holds in the order
\* closed-shape, vertex, linear, self-intersection, directional travel; so a
\* stroke that passes the linear test and no closed-shape rule is given a
\* line symbol, never the symbol of the self-intersection rule after it.
C26_LinearBeforeSelfIntersection ==
    (/\ classified
     /\ strokeLen >= MIN_POINTS
     /\ linearTest(measure(stroke))
     /\ ~isClosed(measure(stroke)))
        => gesture \in {"HORIZONTAL", "VERTICAL"}

afterBoss == currentLevel = 1 /\ totalLevelsCleared > 0

\* C29: the boss bonus does not count towards the next level: the first
\* normal level after a boss is entered with score 0, its score rises only
\* by the projectiles a release destroys in it, and no tick completes it
\* before that score is at its target.
C29_BossBonusIsRewardOnly ==
    [][afterBoss
          => /\ (gameState = "LEVEL_COMPLETE" /\ gameState' = "PLAYING")
                   => score' = 0
             /\ (gameState = "PLAYING" /\ score' # score)
                   => /\ \E g \in SpellTypes : handleInputEnd(g)
                      /\ score' = score + killValueOf(currentBiomeIndex, currentLevel)
                                   * (Len(Regulars(enemies)) - Len(Regulars(enemies')))
             /\ (anyTick /\ gameState' = "LEVEL_COMPLETE")
                   => score >= targetScoreOf(currentBiomeIndex, currentLevel)]_vars

\* C29 witness: after the boss of the last biome gave its bonus, a tick ran
\* on the level that follows, which went on with one projectile destroyed.
C29_Witness ==
    /\ afterBoss
    /\ gameState = "PLAYING"
    /\ last[1] = "tickRun"
    /\ totalLevelsCleared = clearedAt(NUM_BIOMES - 1, BOSS_LEVEL) + 1
    /\ score = killValueOf(0, 1)

ranTick == last'[1] \in {"tickRun", "tickResume"}

\* C31: on level 11 the unpaused tick that finds the boss inactive spawns
\* the ring of 4 + biome sigils and sets the total and the remaining count
\* to that number; a tick that finds the boss active leaves ring and counts
\* alone, also after sigils were destroyed; nothing else adds a sigil.
C31_RingSpawnedOncePerEntry ==
    [][/\ (ranTick /\ currentLevel = BOSS_LEVEL /\ ~boss.active)
             => /\ boss' = [active |-> TRUE,
                            maxSigils |-> 4 + currentBiomeIndex,
                            currentSigils |-> 4 + currentBiomeIndex]
                /\ Len(Sigils(enemies')) = 4 + currentBiomeIndex
       /\ (ranTick /\ currentLevel = BOSS_LEVEL /\ boss.active)
             => /\ boss' = boss
                /\ Sigils(enemies') = Sigils(enemies)
       /\ Len(Sigils(enemies')) > Len(Sigils(enemies))
             => (ranTick /\ currentLevel = BOSS_LEVEL /\ ~boss.active)
       /\ last'[1] = "tickPaused" => boss' = boss]_vars

\* C31 witness: a tick ran on the boss level of the last biome with eight of
\* the ten sigils of a freshly spawned ring left.
C31_Witness ==
    /\ last[1] \in {"tickRun", "tickResume"}
    /\ currentLevel = BOSS_LEVEL
    /\ gameState = "PLAYING"
    /\ boss.active
    /\ boss.maxSigils = 10 /\ boss.currentSigils = 8
    /\ Len(Sigils(enemies)) = 8

\* C32: while level 11 lasts the score stays at its level-entry value,
\* whatever a release destroys; it changes only with the reset of a new
\* entry or with the step that leaves the level.
C32_NoScoreOnBossLevel ==
    [][(/\ currentLevel = BOSS_LEVEL
        /\ currentLevel' = BOSS_LEVEL
        /\ ~(gameState # "PLAYING" /\ gameState' = "PLAYING"))
          => score' = score]_vars

\* C32 witness: on the boss level a release destroyed one projectile and no
\* sigil, and the score is still 0.
C32_Witness ==
    /\ last = <<"handleInputEnd", 1>>
    /\ currentLevel = BOSS_LEVEL
    /\ gameState = "PLAYING"
    /\ boss.active /\ boss.currentSigils = 2
    /\ Len(Sigils(enemies)) = 2
    /\ score = 0

\* C33: a stroke with at least one counted self-intersection classifies as
\* the figure-eight symbol, the X symbol or no-match; if it is closed and
\* higher than 30 pixels it is the figure-eight, if it is open with aspect
\* ratio strictly between 0.4 and 2.5 it is the X.
C33_CrossingStrokes ==
    (classified /\ strokeLen >= MIN_POINTS
        /\ measure(stroke).intersectionCount >= 1)
      => LET m == measure(stroke)
         IN /\ gesture \in {"EIGHT_SHAPE", "X_SHAPE", NoMatch}
            /\ (isClosed(m) /\ m.height > 30 * m.unit)
                  => gesture = "EIGHT_SHAPE"
            /\ (~isClosed(m) /\ aspectInRange(m)) => gesture = "X_SHAPE"

\* C33 witness: an open stroke with a crossing and an aspect ratio outside
\* the X range was classified as no-match.
C33_Witness ==
    /\ classified
    /\ strokeLen >= MIN_POINTS
    /\ measure(stroke).intersectionCount >= 1
    /\ ~isClosed(measure(stroke))
    /\ ~aspectInRange(measure(stroke))
    /\ gesture = NoMatch

\* C34: the target score of a normal level is a positive integer, smaller
\* than that of the next level of the same biome and smaller than that of
\* the same level of the next biome; the target of level 11 is 0.
C34_TargetScoreMonotone ==
    shownTarget # NoTarget
      => IF currentLevel = BOSS_LEVEL THEN shownTarget = 0
         ELSE /\ shownTarget \in Nat \ {0}
              /\ currentLevel < 10
                    => shownTarget < targetScoreOf(currentBiomeIndex, currentLevel + 1)
              /\ currentBiomeIndex < NUM_BIOMES - 1
                    => shownTarget < targetScoreOf(currentBiomeIndex + 1, currentLevel)

\* C34 witness: the target of level 4 of the third biome, where the
\* floating-point product falls just short of 252, was computed.
C34_Witness ==
    /\ currentBiomeIndex = 2 /\ currentLevel = 4
    /\ shownTarget = 251

\* C35: while the boss-active flag is set the remaining-sigil count is the
\* number of sigils in the enemy list.
C35_SigilCountMatchesList ==
    boss.active => boss.currentSigils = Len(Sigils(enemies))

\* C35 witness: the bomb cleared a projectile from the boss level with eight
\* sigils of a fresh ring left.
C35_Witness ==
    /\ last[1] = "bomb" /\ last[2] >= 1
    /\ boss.active
    /\ boss.currentSigils = 8
    /\ Len(Sigils(enemies)) = 8

\* ------------------------------------------------------- ends and pauses
\* The step was a stroke release.
released == last'[1] \in {"handleInputEnd", "miss"}

\* C36: after game over the state stays GAME_OVER until a restart, and a
\* stroke released in GAME_OVER or LEVEL_COMPLETE removes no enemy, adds no
\* score, keeps the remaining-sigil count and does not change the game state.
C36_ReleaseAfterTheEnd ==
    [][/\ gameState = "GAME_OVER" => gameState' \in {"GAME_OVER", "PLAYING"}
       /\ (gameState \in {"GAME_OVER", "LEVEL_COMPLETE"} /\ released)
             => /\ UNCHANGED <<enemies, score, gameState>>
                /\ boss'.currentSigils = boss.currentSigils]_vars

\* C37: after a level-complete transition, nothing changes the cleared-level
\* counter or the level before PLAYING is entered again, a further frame
\* included.
C37_OneCompletionPerEntry ==
    [][gameState = "LEVEL_COMPLETE"
          => /\ totalLevelsCleared' = totalLevelsCleared
             /\ currentLevel' = currentLevel
             /\ currentBiomeIndex' = currentBiomeIndex]_vars

\* C38: a restart keeps biome, level, cleared-level counter and cooldown end
\* times and resets score, health, enemies, particles, pause flag and boss
\* flag; no step lowers the counter or locks an unlocked ability.
C38_RestartKeepsProgress ==
    [][/\ (gameState = "GAME_OVER" /\ gameState' = "PLAYING")
             => /\ UNCHANGED <<currentBiomeIndex, currentLevel,
                               totalLevelsCleared, cooldowns>>
                /\ score' = 0 /\ health' = maxHealth
                /\ enemies' = <<>> /\ particles' = 0
                /\ ~isPaused' /\ ~boss'.active
       /\ totalLevelsCleared' >= totalLevelsCleared
       /\ \A s \in Skills : isUnlocked(s) => totalLevelsCleared' >= unlockAt(s)]_vars

\* C38 witness: the boss level of the last biome was restarted with the
\* shield still cooling down.
C38_Witness ==
    /\ last = <<"restartGame", 0>>
    /\ gameState = "PLAYING"
    /\ currentBiomeIndex = 6 /\ currentLevel = BOSS_LEVEL
    /\ totalLevelsCleared = clearedAt(6, BOSS_LEVEL)
    /\ cooldowns["shield"] > now

\* The projectile with id i is on the field.
onField(i) ==
    \E k \in DOMAIN enemies : enemies[k].id = i /\ ~enemies[k].isBossSigil

\* C39: while frames keep being executed, every projectile on the field is
\* eventually off the field, or play has ended.
C39_EveryProjectileLeaves ==
    \A i \in 1..(MaxRegular + 2) :
        onField(i) ~> (~onField(i) \/ gameState # "PLAYING")

\* C39 witness: a projectile that crept in under the time-slow came within
\* the proximity radius and was removed by a tick.
C39_Witness ==
    /\ last[1] = "tickRun" /\ last[2] >= 1
    /\ skills.timeSlowActive
    /\ gameState = "PLAYING"

\* C40: while the pause flag is set no step changes the enemy list, the
\* score, health or the remaining-sigil count, and no stroke is started or
\* extended.
C40_PausedChangesNothing ==
    [][isPaused
          => /\ UNCHANGED <<enemies, score, health>>
             /\ boss'.currentSigils = boss.currentSigils
             /\ isDrawing' => isDrawing
             /\ drawingPoints' <= drawingPoints]_vars

====
